---- MODULE Spec2Model ----
(***************************************************************************)
(* A model of tarski's FirstOrderLanguage (src/tarski/fol.py): the sort    *)
(* namespace, the sort hierarchy, the promotion table and the predicate,   *)
(* function and constant namespaces, with one action per public call.      *)
(***************************************************************************)
EXTENDS Integers, Sequences, FiniteSets, TLC

VARIABLES
    sorts,                        \* self._sorts: name -> Sort
    sort_hierarchy,               \* self._sort_hierarchy: set of <<lhs name, rhs name>>
    possible_promotions,          \* self._possible_promotions: name -> set of Sort (defaultdict)
    predicates,                   \* self._predicates: name -> Predicate
    functions,                    \* self._functions: name -> Function
    constants,                    \* self._constants: name -> Constant
    language_components_frozen,   \* self.language_components_frozen
    nops,                         \* number of calls made so far on the Language
    last,                         \* the last call: operation, arguments, outcome
    operators,                    \* self._operators: <<operator, t1, t2>> -> handler
    dispatched,                   \* the last dispatch_operator call and its outcome
    iteration,                    \* the generator of the `sorts` property being consumed
    probe,                        \* a number tested against the bounds of the interval sorts
    symbols                       \* the calls made on BuiltinPredicateSymbol (builtins.py)

vars == <<sorts, sort_hierarchy, possible_promotions, predicates, functions,
          constants, language_components_frozen, nops, last,
          operators, dispatched, iteration, probe, symbols>>

\* what the registration calls of the Language leave alone
aside == <<operators, dispatched, iteration, probe, symbols>>

registry == <<sorts, sort_hierarchy, possible_promotions, predicates, functions, constants>>

-----------------------------------------------------------------------------
(* Bounds of the model *)

MaxOps == 3          \* calls made on the Language after its construction
MaxParents == 2      \* length of the super_sorts list given to sort()
MaxArity == 2        \* number of argument sorts given to predicate()/function()
MaxCalls == 2        \* calls made on the Language when every kind of call is drawn
RecursionLimit == 3  \* depth of nested generator frames the interpreter allows

(* Names the calls draw from *)
SortNames == {"item", "heavy_item"}
PredicateNames == {"p"}
FunctionNames == {"f"}
ConstantNames == {"c1", "3"}
VariableNames == {"x"}

-----------------------------------------------------------------------------
(* Values *)

Self == "L"          \* the Language under study
Other == "M"         \* another Language instance

MkSort(name, builtin, uid) ==
    [name |-> name, language |-> Self, builtin |-> builtin, uid |-> uid]

NoSort == [name |-> "", language |-> "", builtin |-> FALSE, uid |-> 0]

\* a sort created by the other Language instance
ForeignSorts == {[name |-> "item", language |-> Other, builtin |-> FALSE, uid |-> 0]}

\* What a caller can pass where a sort is expected: a Sort object, a str, or
\* something else (an int, None, ...).
SortRef(s) == [kind |-> "sort", sort |-> s, name |-> s.name]
NameRef(n) == [kind |-> "name", sort |-> NoSort, name |-> n]
OtherRef == [kind |-> "other", sort |-> NoSort, name |-> ""]

SeqsUpTo(S, n) == UNION {[1..k -> S] : k \in 0..n}

Range(f) == {f[i] : i \in DOMAIN f}

Empty == [x \in {} |-> NoSort]

\* _possible_promotions[k] without inserting the key
Promotions(prom, k) == IF k \in DOMAIN prom THEN prom[k] ELSE {}

\* _possible_promotions[k].update(c): the defaultdict creates the key
PromotionsUpdate(prom, k, c) ==
    IF k \in DOMAIN prom THEN [prom EXCEPT ![k] = @ \cup c] ELSE prom @@ (k :> c)

-----------------------------------------------------------------------------
(* The sort hierarchy *)

RECURSIVE Ancestors(_, _)
Ancestors(hier, S) ==
    LET next == S \cup {e[2] : e \in {d \in hier : d[1] \in S}}
    IN  IF next = S THEN S ELSE Ancestors(hier, next)

\* inclusion_closure(s): s and every sort reached from it over the hierarchy
inclusion_closure(s, srts, hier) ==
    {srts[n] : n \in Ancestors(hier, {s.name}) \cap DOMAIN srts}

\* set_parent with a closure that takes in lhs itself
do_set_parent_with_self(st, lhs, rhs) ==
    IF rhs.kind # "sort" THEN [st EXCEPT !.err = "AttributeError"]
    ELSE IF rhs.sort.language # Self THEN [st EXCEPT !.err = "LanguageError"]
    ELSE LET hier == st.hier \cup {<<lhs.name, rhs.sort.name>>}
         IN  [st EXCEPT !.hier = hier,
                        !.prom = PromotionsUpdate(@, lhs.name,
                                     inclusion_closure(rhs.sort, st.sorts, hier) \cup {lhs})]

\* set_parent(lhs, rhs) on the state st = [sorts, hier, prom, err]; lhs is a
\* Sort, rhs whatever the caller passed.
do_set_parent(st, lhs, rhs) ==
    IF rhs.kind # "sort" THEN [st EXCEPT !.err = "AttributeError"]
    ELSE IF rhs.sort.language # Self THEN [st EXCEPT !.err = "LanguageError"]
    ELSE LET hier == st.hier \cup {<<lhs.name, rhs.sort.name>>}
         IN  [st EXCEPT !.hier = hier,
                        !.prom = PromotionsUpdate(@, lhs.name,
                                     inclusion_closure(rhs.sort, st.sorts, hier))]

RECURSIVE set_parents(_, _, _)
set_parents(st, s, supers) ==
    IF supers = <<>> THEN st
    ELSE LET r == do_set_parent(st, s, Head(supers))
         IN  IF r.err # "ok" THEN r ELSE set_parents(r, s, Tail(supers))

has_sort(srts, name) == name \in DOMAIN srts

\* sort() deriving the new sort from "object" only when no parent is given
do_sort_object_if_empty(st, name, super_sorts, uid) ==
    IF has_sort(st.sorts, name) THEN [st EXCEPT !.err = "DuplicateSortDefinition"]
    ELSE LET s == MkSort(name, FALSE, uid)
             st1 == [st EXCEPT !.sorts = @ @@ (name :> s)]
             osort == SortRef(st1.sorts["object"])
             supers == IF super_sorts = <<>> THEN <<osort>> ELSE super_sorts
         IN  set_parents(st1, s, supers)

\* sort() without the has_sort test: the name is bound again
do_sort_rebinding(st, name, super_sorts, uid) ==
    LET s == MkSort(name, FALSE, uid)
        st1 == [st EXCEPT !.sorts = [n \in DOMAIN @ \cup {name} |->
                                        IF n = name THEN s ELSE @[n]]]
        osort == SortRef(st1.sorts["object"])
        supers == IF osort \in Range(super_sorts) THEN super_sorts
                  ELSE Append(super_sorts, osort)
    IN  set_parents(st1, s, supers)

\* sort(name, super_sorts); uid stamps the Sort object created
do_sort(st, name, super_sorts, uid) ==
    IF has_sort(st.sorts, name) THEN [st EXCEPT !.err = "DuplicateSortDefinition"]
    ELSE LET s == MkSort(name, FALSE, uid)
             st1 == [st EXCEPT !.sorts = @ @@ (name :> s)]
             osort == SortRef(st1.sorts["object"])
             supers == IF osort \in Range(super_sorts) THEN super_sorts
                       ELSE Append(super_sorts, osort)
         IN  set_parents(st1, s, supers)

-----------------------------------------------------------------------------
(* Symbols *)

\* _retrieve_object comparing a Sort with the registered one of its name
\* instead of comparing the owning Language instances
_retrieve_object_structural(srts, ref) ==
    IF ref.kind \notin {"name", "sort"} THEN [err |-> "LanguageError", sort |-> NoSort]
    ELSE IF ref.kind = "sort"
         THEN IF ref.sort.name \notin DOMAIN srts
              THEN [err |-> "LanguageMismatch", sort |-> NoSort]
              ELSE [err |-> "ok", sort |-> srts[ref.sort.name]]
    ELSE IF ref.name \notin DOMAIN srts THEN [err |-> "UndefinedElement", sort |-> NoSort]
    ELSE [err |-> "ok", sort |-> srts[ref.name]]

\* _retrieve_object(obj, Sort): [err, sort]
_retrieve_object(srts, ref) ==
    IF ref.kind \notin {"name", "sort"} THEN [err |-> "LanguageError", sort |-> NoSort]
    ELSE IF ref.kind = "sort"
         THEN IF ref.sort.language # Self
              THEN [err |-> "LanguageMismatch", sort |-> NoSort]
              ELSE [err |-> "ok", sort |-> ref.sort]
    ELSE IF ref.name \notin DOMAIN srts THEN [err |-> "UndefinedElement", sort |-> NoSort]
    ELSE [err |-> "ok", sort |-> srts[ref.name]]

\* [self._retrieve_object(a, Sort) for a in args]: stops at the first failure
RECURSIVE retrieve_all(_, _)
retrieve_all(srts, args) ==
    IF args = <<>> THEN [err |-> "ok", types |-> <<>>]
    ELSE LET r == _retrieve_object(srts, Head(args))
         IN  IF r.err # "ok" THEN [err |-> r.err, types |-> <<>>]
             ELSE LET rest == retrieve_all(srts, Tail(args))
                  IN  IF rest.err # "ok" THEN rest
                      ELSE [err |-> "ok", types |-> <<r.sort>> \o rest.types]

Symbol(name, types, uid) == [name |-> name, sorts |-> types, uid |-> uid]

\* predicate() binding the name again when it is registered already
do_predicate_rebinding(preds, srts, name, args, uid) ==
    LET r == retrieve_all(srts, args)
    IN  IF r.err # "ok" THEN [table |-> preds, err |-> r.err, types |-> <<>>]
        ELSE [table |-> [n \in DOMAIN preds \cup {name} |->
                            IF n = name THEN Symbol(name, r.types, uid) ELSE preds[n]],
              err |-> "ok", types |-> r.types]

\* predicate(name, *args): [table, err, types]
do_predicate(preds, srts, name, args, uid) ==
    IF name \in DOMAIN preds
    THEN [table |-> preds, err |-> "DuplicatePredicateDefinition", types |-> <<>>]
    ELSE LET r == retrieve_all(srts, args)
         IN  IF r.err # "ok" THEN [table |-> preds, err |-> r.err, types |-> <<>>]
             ELSE [table |-> preds @@ (name :> Symbol(name, r.types, uid)),
                   err |-> "ok", types |-> r.types]

\* function(name, *args): [table, err, types]
do_function(funcs, srts, name, args, uid) ==
    IF name \in DOMAIN funcs
    THEN [table |-> funcs, err |-> "DuplicateFunctionDefinition", types |-> <<>>]
    ELSE LET r == retrieve_all(srts, args)
         IN  IF r.err # "ok" THEN [table |-> funcs, err |-> r.err, types |-> <<>>]
             ELSE [table |-> funcs @@ (name :> Symbol(name, r.types, uid)),
                   err |-> "ok", types |-> r.types]

\* Interval.cast(name): whether the literal is accepted by the builtin sort
IntegralLiterals == {"3"}
RealLiterals == {"3", "3.5"}
cast_accepts(s, name) ==
    IF s.name = "Real" THEN name \in RealLiterals ELSE name \in IntegralLiterals

\* constant() keeping the constants of builtin sorts in _constants too
do_constant_storing(consts, srts, name, ref, uid) ==
    LET r == _retrieve_object(srts, ref)
    IN  IF r.err # "ok" THEN [table |-> consts, err |-> r.err, types |-> <<>>]
        ELSE IF r.sort.builtin /\ ~cast_accepts(r.sort, name)
             THEN [table |-> consts, err |-> "SemanticError", types |-> <<>>]
        ELSE IF name \in DOMAIN consts
             THEN [table |-> consts, err |-> "DuplicateConstantDefinition", types |-> <<>>]
        ELSE [table |-> consts @@ (name :> Symbol(name, <<r.sort>>, uid)),
              err |-> "ok", types |-> <<r.sort>>]

\* constant(name, sort): [table, err, types]
do_constant(consts, srts, name, ref, uid) ==
    LET r == _retrieve_object(srts, ref)
    IN  IF r.err # "ok" THEN [table |-> consts, err |-> r.err, types |-> <<>>]
        ELSE IF r.sort.builtin
             THEN IF cast_accepts(r.sort, name)
                  THEN [table |-> consts, err |-> "ok", types |-> <<r.sort>>]
                  ELSE [table |-> consts, err |-> "SemanticError", types |-> <<>>]
        ELSE IF name \in DOMAIN consts
             THEN [table |-> consts, err |-> "DuplicateConstantDefinition", types |-> <<>>]
        ELSE [table |-> consts @@ (name :> Symbol(name, <<r.sort>>, uid)),
              err |-> "ok", types |-> <<r.sort>>]

-----------------------------------------------------------------------------
(* Construction *)

Blank == [sorts |-> Empty, hier |-> {}, prom |-> Empty, err |-> "ok"]

build_the_objects(st) ==
    [st EXCEPT !.sorts = @ @@ ("object" :> MkSort("object", FALSE, 0))]

build_interval(st, name, parent) ==
    LET s == MkSort(name, TRUE, 0)
        st1 == [st EXCEPT !.sorts = @ @@ (name :> s)]
    IN  do_set_parent(st1, s, SortRef(st1.sorts[parent]))

build_the_reals(st) == build_interval(st, "Real", "object")
build_the_integers(st) == build_interval(st, "Integer", "Real")
build_the_naturals(st) == build_interval(st, "Natural", "Integer")

build_builtin_sorts ==
    build_the_naturals(build_the_integers(build_the_reals(build_the_objects(Blank))))

NoCall == [op |-> "init", name |-> "", args |-> <<>>, err |-> "ok", types |-> <<>>]

NoDispatch == [key |-> <<>>, lhs |-> 0, rhs |-> 0, err |-> "none", result |-> 0]

NotIterating == [property |-> "", status |-> "idle", depth |-> 0, yielded |-> <<>>]

NoProbe == [value |-> [neg |-> FALSE, mag |-> <<>>], sort |-> "", accepted |-> FALSE,
            inside |-> {}]

Init ==
    /\ sorts = build_builtin_sorts.sorts
    /\ sort_hierarchy = build_builtin_sorts.hier
    /\ possible_promotions = build_builtin_sorts.prom
    /\ predicates = Empty
    /\ functions = Empty
    /\ constants = Empty
    /\ language_components_frozen = FALSE
    /\ nops = 0
    /\ last = NoCall
    /\ operators = Empty
    /\ dispatched = NoDispatch
    /\ iteration = NotIterating
    /\ probe = NoProbe
    /\ symbols = <<>>

-----------------------------------------------------------------------------
(* Calls *)

Current == [sorts |-> sorts, hier |-> sort_hierarchy, prom |-> possible_promotions,
            err |-> "ok"]

\* The Sort objects a caller holds: the user sorts, two of the builtin sorts
\* and a sort of the other Language.
HeldBuiltins == {"object", "Integer"}
OwnSorts == {sorts[n] : n \in DOMAIN sorts \cap (HeldBuiltins \cup SortNames)}
SortObjects == OwnSorts \cup ForeignSorts

\* what sort() is given as a parent
ParentSorts == {SortRef(s) : s \in SortObjects}
ParentRefs == ParentSorts \cup {NameRef("item")}

\* what predicate(), function() and variable() are given as a sort
ArgRefs == {SortRef(sorts["object"]), NameRef("item"), OtherRef}
               \cup {SortRef(s) : s \in ForeignSorts}

\* what constant() is given as a sort
ConstantRefs == ArgRefs \cup {SortRef(sorts["Integer"])}

Call(op, name, args, err, types) ==
    [op |-> op, name |-> name, args |-> args, err |-> err, types |-> types]

sort(name, super_sorts) ==
    /\ LET r == do_sort(Current, name, super_sorts, nops + 1)
       IN  /\ sorts' = r.sorts
           /\ sort_hierarchy' = r.hier
           /\ possible_promotions' = r.prom
           /\ last' = Call("sort", name, super_sorts, r.err, <<>>)
    /\ nops' = nops + 1
    /\ UNCHANGED <<predicates, functions, constants, language_components_frozen>>
    /\ UNCHANGED aside

set_parent(lhs, rhs) ==
    /\ LET r == do_set_parent(Current, lhs, SortRef(rhs))
       IN  /\ sort_hierarchy' = r.hier
           /\ possible_promotions' = r.prom
           /\ last' = Call("set_parent", "", <<SortRef(lhs), SortRef(rhs)>>, r.err, <<>>)
    /\ nops' = nops + 1
    /\ UNCHANGED <<sorts, predicates, functions, constants, language_components_frozen>>
    /\ UNCHANGED aside

predicate(name, args) ==
    /\ LET r == do_predicate(predicates, sorts, name, args, nops + 1)
       IN  /\ predicates' = r.table
           /\ last' = Call("predicate", name, args, r.err, r.types)
    /\ nops' = nops + 1
    /\ UNCHANGED <<sorts, sort_hierarchy, possible_promotions, functions, constants,
                   language_components_frozen>>
    /\ UNCHANGED aside

function(name, args) ==
    /\ LET r == do_function(functions, sorts, name, args, nops + 1)
       IN  /\ functions' = r.table
           /\ last' = Call("function", name, args, r.err, r.types)
    /\ nops' = nops + 1
    /\ UNCHANGED <<sorts, sort_hierarchy, possible_promotions, predicates, constants,
                   language_components_frozen>>
    /\ UNCHANGED aside

constant(name, ref) ==
    /\ LET r == do_constant(constants, sorts, name, ref, nops + 1)
       IN  /\ constants' = r.table
           /\ last' = Call("constant", name, <<ref>>, r.err, r.types)
    /\ nops' = nops + 1
    /\ UNCHANGED <<sorts, sort_hierarchy, possible_promotions, predicates, functions,
                   language_components_frozen>>
    /\ UNCHANGED aside

\* variable() refusing a name that a sort bears already
variable_unique(name, ref) ==
    /\ LET r == _retrieve_object(sorts, ref)
           err == IF name \in DOMAIN sorts THEN "DuplicateVariableDefinition" ELSE r.err
       IN  last' = Call("variable", name, <<ref>>, err,
                        IF err = "ok" THEN <<r.sort>> ELSE <<>>)
    /\ nops' = nops + 1
    /\ UNCHANGED <<registry, language_components_frozen>>
    /\ UNCHANGED aside

variable(name, ref) ==
    /\ LET r == _retrieve_object(sorts, ref)
       IN  last' = Call("variable", name, <<ref>>, r.err,
                        IF r.err = "ok" THEN <<r.sort>> ELSE <<>>)
    /\ nops' = nops + 1
    /\ UNCHANGED <<registry, language_components_frozen>>
    /\ UNCHANGED aside

\* a caller marks the Language frozen
freeze ==
    /\ language_components_frozen' = TRUE
    /\ last' = Call("freeze", "", <<>>, "ok", <<>>)
    /\ nops' = nops + 1
    /\ UNCHANGED registry
    /\ UNCHANGED aside

Next ==
    /\ nops < MaxOps
    /\ \/ \E name \in SortNames, ss \in SeqsUpTo(ParentRefs, MaxParents) : sort(name, ss)
       \/ \E lhs \in SortObjects, rhs \in SortObjects : set_parent(lhs, rhs)
       \/ \E name \in PredicateNames, args \in SeqsUpTo(ArgRefs, MaxArity) : predicate(name, args)
       \/ \E name \in FunctionNames, args \in SeqsUpTo(ArgRefs, MaxArity) : function(name, args)
       \/ \E name \in ConstantNames, ref \in ConstantRefs : constant(name, ref)
       \/ \E name \in VariableNames, ref \in ArgRefs : variable(name, ref)
       \/ freeze

Spec == Init /\ [][Next]_vars

\* A Language built through sort() calls only, each parent given as a Sort
NextSortOnly ==
    /\ nops < MaxOps
    /\ \E name \in SortNames, ss \in SeqsUpTo(ParentSorts, MaxParents) : sort(name, ss)

SpecSortOnly == Init /\ [][NextSortOnly]_vars

\* The symbol namespaces: sorts registered with at most one parent, then
\* predicates, functions, constants and variables over them
NextSymbols ==
    /\ nops < MaxOps
    /\ \/ \E name \in SortNames, ss \in {<<>>} \cup {<<r>> : r \in ParentRefs} : sort(name, ss)
       \/ \E name \in PredicateNames, args \in SeqsUpTo(ArgRefs, MaxArity) : predicate(name, args)
       \/ \E name \in FunctionNames, args \in SeqsUpTo(ArgRefs, MaxArity) : function(name, args)
       \/ \E name \in ConstantNames, ref \in ConstantRefs : constant(name, ref)
       \/ \E name \in VariableNames, ref \in ArgRefs : variable(name, ref)

SpecSymbols == Init /\ [][NextSymbols]_vars

-----------------------------------------------------------------------------
(* Queries *)

get_sort(name) == sorts[name]

is_strict_subtype(t, st) == st \in Promotions(possible_promotions, t.name)

is_subtype(t, st) == t = st \/ is_strict_subtype(t, st)

are_vertically_related(t1, t2) == is_subtype(t1, t2) \/ is_subtype(t2, t1)

Registered == Range(sorts)

\* the names reached from n over one or more edges of the hierarchy
ReachedFrom(n) == Ancestors(sort_hierarchy, {e[2] : e \in {d \in sort_hierarchy : d[1] = n}})

RegistrationOps == {"sort", "predicate", "function", "constant"}

Called == nops' = nops + 1

-----------------------------------------------------------------------------
(* Properties *)

\* C1: a sort(), predicate(), function() or constant() call that fails leaves
\* the sort namespace, the hierarchy, the promotion sets and the predicate,
\* function and constant namespaces as they were before the call.
C1_FailedRegistrationIsAtomic ==
    [][(Called /\ last'.op \in RegistrationOps /\ last'.err # "ok")
          => UNCHANGED registry]_vars

\* C2: for all registered sorts t and st, is_strict_subtype(t, st) is true
\* exactly when st is reached from t over one or more hierarchy edges.
C2_PromotionsMatchEdges ==
    \A t \in Registered, st \in Registered :
        is_strict_subtype(t, st) <=> st.name \in ReachedFrom(t.name)

\* C3: the hierarchy edge set is acyclic, self-edges included, and a call that
\* would close a cycle fails with LanguageError and adds no edge.
C3_HierarchyAcyclic ==
    \A n \in DOMAIN sorts : n \notin ReachedFrom(n)

\* C4: registering a name already present in its namespace fails with the
\* namespace's Duplicate error, the name stays mapped to the entity registered
\* before, and the sort namespace and the hierarchy are unchanged. (For
\* constant() the namespace is the one of constants of non-builtin sorts: the
\* sort given resolves to a non-builtin sort.)
C4_DuplicateNamesRejected ==
    [][Called =>
        /\ (last'.op = "sort" /\ last'.name \in DOMAIN sorts)
              => /\ last'.err = "DuplicateSortDefinition"
                 /\ UNCHANGED <<sorts, sort_hierarchy>>
                 /\ Cardinality(DOMAIN sorts') = Cardinality(DOMAIN sorts)
        /\ (last'.op = "predicate" /\ last'.name \in DOMAIN predicates)
              => /\ last'.err = "DuplicatePredicateDefinition"
                 /\ UNCHANGED <<predicates, sorts, sort_hierarchy>>
        /\ (last'.op = "function" /\ last'.name \in DOMAIN functions)
              => /\ last'.err = "DuplicateFunctionDefinition"
                 /\ UNCHANGED <<functions, sorts, sort_hierarchy>>
        /\ (/\ last'.op = "constant" /\ last'.name \in DOMAIN constants
            /\ _retrieve_object(sorts, last'.args[1]).err = "ok"
            /\ ~_retrieve_object(sorts, last'.args[1]).sort.builtin)
              => /\ last'.err = "DuplicateConstantDefinition"
                 /\ UNCHANGED <<constants, sorts, sort_hierarchy>>]_vars

\* C4 witness: a sort name registered before was registered again
C4_Witness ==
    /\ last.op = "sort" /\ last.err = "DuplicateSortDefinition"
    /\ last.name \in SortNames

\* C5: every registered sort other than Object has Object in its promotion
\* set, after successful and after failed registration calls alike.
C5_ObjectAboveEverySort ==
    \A s \in Registered :
        s.name # "object" => is_subtype(s, get_sort("object"))
                             /\ get_sort("object") \in Promotions(possible_promotions, s.name)

\* C6: is_strict_subtype holds for every pair of the chain Natural, Integer,
\* Real, Object taken upward and for no pair taken downward, from construction
\* onward and after any sequence of calls.
BuiltinChain == <<"Natural", "Integer", "Real", "object">>

C6_BuiltinChainFixed ==
    \A i \in 1..4, j \in 1..4 :
        /\ i < j => is_strict_subtype(get_sort(BuiltinChain[i]), get_sort(BuiltinChain[j]))
        /\ i > j => ~is_strict_subtype(get_sort(BuiltinChain[i]), get_sort(BuiltinChain[j]))

\* C7: in a Language built through sort() calls only, is_subtype over the
\* registered sorts is reflexive, transitive and antisymmetric, and
\* is_strict_subtype(t, t) is false for every registered sort t.
C7_SubtypeIsPartialOrder ==
    \A t \in Registered :
        /\ is_subtype(t, t)
        /\ ~is_strict_subtype(t, t)
        /\ \A st \in Registered :
              /\ (is_subtype(t, st) /\ is_subtype(st, t)) => t = st
              /\ \A u \in Registered :
                    (is_subtype(t, st) /\ is_subtype(st, u)) => is_subtype(t, u)

\* C7 witness: two user sorts, one registered below the other
C7_Witness ==
    /\ {"item", "heavy_item"} \subseteq DOMAIN sorts
    /\ \E t \in Registered, st \in Registered :
          /\ t.name \in SortNames /\ st.name \in SortNames
          /\ is_strict_subtype(t, st)
          /\ is_strict_subtype(st, get_sort("Integer"))

\* C8: once the Language is marked frozen, every sort(), predicate(),
\* function() and constant() call fails and the namespaces, the hierarchy and
\* the promotion sets never change again.
C8_FrozenRejectsRegistration ==
    [][(language_components_frozen /\ Called)
          => /\ UNCHANGED registry
             /\ last'.op \in RegistrationOps => last'.err # "ok"]_vars

\* C9: sort("heavy_item", ["item"]) after sort("item") succeeds, gives
\* is_subtype(heavy_item, item), is_subtype(heavy_item, Object) and
\* are_vertically_related(item, Integer) false, and leaves the same state as
\* giving the parent as the Sort object.
C9_ParentGivenByName ==
    [][(/\ Called
        /\ last.op = "sort" /\ last.name = "item" /\ last.args = <<>> /\ last.err = "ok"
        /\ last'.op = "sort" /\ last'.name = "heavy_item"
        /\ last'.args = <<NameRef("item")>>
        /\ "heavy_item" \notin DOMAIN sorts)
          => /\ last'.err = "ok"
             /\ "heavy_item" \in DOMAIN sorts'
             /\ LET byObject == do_sort(Current, "heavy_item",
                                        <<SortRef(sorts["item"])>>, nops + 1)
                IN  /\ sorts' = byObject.sorts
                    /\ sort_hierarchy' = byObject.hier
                    /\ possible_promotions' = byObject.prom
                    /\ sorts'["item"] \in possible_promotions'["heavy_item"]
                    /\ sorts'["object"] \in possible_promotions'["heavy_item"]
                    /\ sorts'["Integer"] \notin possible_promotions'["item"]
                    /\ sorts'["item"] \notin possible_promotions'["Integer"]]_vars

\* C10: predicate(), function(), constant() and variable() resolve each sort
\* reference in turn: a Sort of another Language fails with LanguageMismatch, a
\* name absent from the sort namespace with UndefinedElement, any other input
\* with LanguageError, and a name that is present resolves to the Sort that
\* get_sort(name) returns. (The name registered is not a duplicate.)
ResolutionOps == {"predicate", "function", "constant", "variable"}

DuplicateErrors == {"DuplicatePredicateDefinition", "DuplicateFunctionDefinition",
                    "DuplicateConstantDefinition"}

Resolvable(ref) ==
    \/ ref.kind = "sort" /\ ref.sort.language = Self
    \/ ref.kind = "name" /\ has_sort(sorts, ref.name)

ExpectedFailure(ref) ==
    IF ref.kind = "sort" THEN "LanguageMismatch"
    ELSE IF ref.kind = "name" THEN "UndefinedElement"
    ELSE "LanguageError"

C10_SortReferenceResolution ==
    (last.op \in ResolutionOps /\ last.err \notin DuplicateErrors) =>
        LET bad == {i \in DOMAIN last.args : ~Resolvable(last.args[i])}
        IN  IF bad # {}
            THEN \E i \in bad : /\ \A j \in bad : i <= j
                                /\ last.err = ExpectedFailure(last.args[i])
            ELSE /\ last.err \in {"ok", "SemanticError"}
                 /\ last.err = "SemanticError" => last.op = "constant"
                 /\ last.err = "ok" =>
                      /\ Len(last.types) = Len(last.args)
                      /\ \A i \in DOMAIN last.args :
                            /\ last.args[i].kind = "name"
                                  => last.types[i] = get_sort(last.args[i].name)
                            /\ last.args[i].kind = "sort"
                                  => last.types[i] = last.args[i].sort

\* C10 witness: a predicate registered with one argument sort given by name
\* and one given as a Sort object
C10_Witness ==
    /\ last.op = "predicate" /\ last.err = "ok"
    /\ \E i \in DOMAIN last.args : last.args[i].kind = "name"
    /\ \E i \in DOMAIN last.args : last.args[i].kind = "sort"
    /\ last.name \in DOMAIN predicates
    /\ predicates[last.name].sorts = last.types

-----------------------------------------------------------------------------
(* Constants of the builtin interval sorts *)

Literals == {"c1", "3", "3.5"}

IntervalNames == {"Real", "Integer", "Natural"}

\* what constant() is given as a sort when the interval sorts are exercised
IntervalRefs == {SortRef(sorts[n]) : n \in IntervalNames} \cup {NameRef("Integer")}

\* sorts registered with at most one parent, then constants over all sorts
NextConstants ==
    /\ nops < MaxOps
    /\ \/ \E name \in SortNames, ss \in {<<>>} \cup {<<r>> : r \in ParentRefs} : sort(name, ss)
       \/ \E name \in Literals, ref \in ArgRefs \cup IntervalRefs : constant(name, ref)

SpecConstants == Init /\ [][NextConstants]_vars

\* C11: constant(name, sort) with a builtin interval sort returns a Constant
\* when the cast accepts the literal ("3" for Integer) and fails with
\* SemanticError when it rejects it ("3.5" for Integer); either way the
\* constant namespace is unchanged, so no DuplicateConstant can follow; a
\* successful call with a non-builtin sort stores the constant under its name.
C11_BuiltinConstantsNotStored ==
    [][(Called /\ last'.op = "constant") =>
        LET r == _retrieve_object(sorts, last'.args[1])
        IN  /\ (r.err = "ok" /\ r.sort.name \in IntervalNames) =>
                  /\ constants' = constants
                  /\ last'.err \in {"ok", "SemanticError"}
                  /\ (last'.name = "3") => last'.err = "ok"
                  /\ (last'.name = "3.5" /\ r.sort.name = "Integer")
                        => last'.err = "SemanticError"
                  /\ (last'.name = "c1") => last'.err = "SemanticError"
                  /\ last'.err = "ok" => last'.types = <<r.sort>>
            /\ (r.err = "ok" /\ r.sort.name \notin IntervalNames /\ last'.err = "ok") =>
                  /\ last'.name \in DOMAIN constants'
                  /\ constants'[last'.name].sorts = <<r.sort>>
                  /\ last'.name \notin DOMAIN constants]_vars

\* C11 witness: the literal "3" was made an Integer constant while a constant
\* named "3" of a non-builtin sort is registered, and that one is still there
C11_Witness ==
    /\ last.op = "constant" /\ last.name = "3" /\ last.err = "ok"
    /\ last.types = <<sorts["Integer"]>>
    /\ "3" \in DOMAIN constants
    /\ constants["3"].sorts = <<sorts["object"]>>

-----------------------------------------------------------------------------
(* The operator dispatch table *)

OperatorSymbols == {"+"}
OperandKinds == {"Integer", "Real"}
OperatorKeys == {<<o, t1, t2>> : o \in OperatorSymbols, t1 \in OperandKinds, t2 \in OperandKinds}
Operands == {2, 3}

\* The handlers a caller registers: two that return a value, one that fails
\* on a dict lookup of its own, one that fails otherwise.
Handlers == {"add", "sub", "lookup", "invalid"}

\* handler(lhs, rhs): [err, result]
apply_handler(handler, lhs, rhs) ==
    IF handler = "add" THEN [err |-> "ok", result |-> lhs + rhs]
    ELSE IF handler = "sub" THEN [err |-> "ok", result |-> lhs - rhs]
    ELSE IF handler = "lookup" THEN [err |-> "KeyError", result |-> 0]
    ELSE [err |-> "ValueError", result |-> 0]

\* register_operator_handler(operator, t1, t2, handler) on the table
do_register_operator_handler(ops, key, handler) ==
    [k \in DOMAIN ops \cup {key} |-> IF k = key THEN handler ELSE ops[k]]

\* dispatch_operator trying the pair of supersorts when the exact pair is missing
do_dispatch_operator_promoting(ops, key, lhs, rhs) ==
    LET up == <<key[1], "Real", "Real">>
        k == IF key \in DOMAIN ops THEN key ELSE up
    IN  IF k \notin DOMAIN ops THEN [err |-> "LanguageError", result |-> 0]
        ELSE LET r == apply_handler(ops[k], lhs, rhs)
             IN  IF r.err = "KeyError" THEN [err |-> "LanguageError", result |-> 0] ELSE r

\* dispatch_operator(operator, t1, t2, lhs, rhs): [err, result]. The try
\* block holds the lookup and the call of the handler.
do_dispatch_operator(ops, key, lhs, rhs) ==
    IF key \notin DOMAIN ops THEN [err |-> "LanguageError", result |-> 0]
    ELSE LET r == apply_handler(ops[key], lhs, rhs)
         IN  IF r.err = "KeyError" THEN [err |-> "LanguageError", result |-> 0] ELSE r

register_operator_handler(key, handler) ==
    /\ operators' = do_register_operator_handler(operators, key, handler)
    /\ last' = Call("register_operator_handler", handler, key, "ok", <<>>)
    /\ nops' = nops + 1
    /\ UNCHANGED <<registry, language_components_frozen, dispatched, iteration, probe, symbols>>

dispatch_operator(key, lhs, rhs) ==
    /\ LET r == do_dispatch_operator(operators, key, lhs, rhs)
       IN  /\ dispatched' = [key |-> key, lhs |-> lhs, rhs |-> rhs,
                             err |-> r.err, result |-> r.result]
           /\ last' = Call("dispatch_operator", "", key, r.err, <<>>)
    /\ nops' = nops + 1
    /\ UNCHANGED <<registry, language_components_frozen, operators, iteration, probe, symbols>>

NextOperators ==
    /\ nops < MaxOps
    /\ \/ \E key \in OperatorKeys, h \in Handlers : register_operator_handler(key, h)
       \/ \E key \in OperatorKeys, lhs \in Operands, rhs \in Operands :
             dispatch_operator(key, lhs, rhs)

SpecOperators == Init /\ [][NextOperators]_vars

Returning == {h \in Handlers : apply_handler(h, 2, 3).err = "ok"}

\* C12: dispatch_operator returns what the handler most recently registered
\* for exactly the triple returns on (lhs, rhs); registering a triple again
\* overwrites and never fails; with no handler for the exact triple the call
\* fails with LanguageError, whatever is registered for other triples.
C12_ExactDispatch ==
    [][Called =>
        /\ last'.op = "register_operator_handler" =>
              /\ last'.err = "ok"
              /\ last'.args \in DOMAIN operators'
              /\ operators'[last'.args] = last'.name
              /\ \A k \in DOMAIN operators' \ {last'.args} :
                    k \in DOMAIN operators /\ operators'[k] = operators[k]
              /\ DOMAIN operators \subseteq DOMAIN operators'
        /\ last'.op = "dispatch_operator" =>
              /\ operators' = operators
              /\ dispatched'.key \notin DOMAIN operators
                    => dispatched'.err = "LanguageError"
              /\ (dispatched'.key \in DOMAIN operators
                  /\ operators[dispatched'.key] \in Returning) =>
                    /\ dispatched'.err = "ok"
                    /\ operators[dispatched'.key] = "add"
                          => dispatched'.result = dispatched'.lhs + dispatched'.rhs
                    /\ operators[dispatched'.key] = "sub"
                          => dispatched'.result = dispatched'.lhs - dispatched'.rhs]_vars

\* C12 witness: no handler for (+, Integer, Real), one for (+, Real, Real) and
\* one for (+, Integer, Integer): the dispatch on (Integer, Real) failed
C12_Witness ==
    /\ dispatched.key = <<"+", "Integer", "Real">>
    /\ dispatched.err = "LanguageError"
    /\ last.op = "dispatch_operator"
    /\ <<"+", "Integer", "Real">> \notin DOMAIN operators
    /\ {<<"+", "Real", "Real">>, <<"+", "Integer", "Integer">>} \subseteq DOMAIN operators

\* C18: dispatch_operator fails with LanguageError only if no handler is
\* registered for the exact triple; a failure raised inside a registered
\* handler, a KeyError included, propagates as the handler's own failure.
C18_HandlerFailurePropagates ==
    [][(Called /\ last'.op = "dispatch_operator") =>
        /\ dispatched'.err = "LanguageError" => dispatched'.key \notin DOMAIN operators
        /\ dispatched'.key \in DOMAIN operators =>
              dispatched'.err = apply_handler(operators[dispatched'.key],
                                              dispatched'.lhs, dispatched'.rhs).err]_vars

-----------------------------------------------------------------------------
(* Queries as calls *)

\* self._possible_promotions[k] read through the defaultdict: a missing key is
\* inserted with an empty set
PromotionsRead(prom, k) == IF k \in DOMAIN prom THEN prom ELSE prom @@ (k :> {})

\* the promotion table after is_strict_subtype(t, st)
after_is_strict_subtype(prom, t, st) == PromotionsRead(prom, t.name)

\* the promotion table after is_subtype(t, st): `t == st or ...`
after_is_subtype(prom, t, st) ==
    IF t = st THEN prom ELSE after_is_strict_subtype(prom, t, st)

\* the promotion table after are_vertically_related(t1, t2)
after_are_vertically_related(prom, t1, t2) ==
    IF t1 = t2 \/ t2 \in Promotions(prom, t1.name)
    THEN after_is_subtype(prom, t1, t2)
    ELSE after_is_subtype(after_is_subtype(prom, t1, t2), t2, t1)

Namespace(kind) ==
    IF kind = "sort" THEN sorts
    ELSE IF kind = "predicate" THEN predicates
    ELSE IF kind = "function" THEN functions
    ELSE constants

UndefinedError(kind) ==
    IF kind = "sort" THEN "UndefinedSort"
    ELSE IF kind = "predicate" THEN "UndefinedPredicate"
    ELSE IF kind = "function" THEN "UndefinedFunction"
    ELSE "UndefinedConstant"

Kinds == {"sort", "predicate", "function", "constant"}
QueriedNames == {"item", "NoSuchSort", "p"}

\* has_sort / has_predicate / has_function / has_constant
query_has(kind, name) ==
    /\ last' = Call("has", name, <<kind>>, "ok", <<>>)
    /\ nops' = nops + 1
    /\ UNCHANGED <<registry, language_components_frozen, aside>>

\* get_sort / get_predicate / get_function / get_constant
query_get(kind, name) ==
    /\ last' = Call("get", name, <<kind>>,
                    IF name \in DOMAIN Namespace(kind) THEN "ok" ELSE UndefinedError(kind),
                    <<>>)
    /\ nops' = nops + 1
    /\ UNCHANGED <<registry, language_components_frozen, aside>>

query_is_strict_subtype(t, st) ==
    /\ possible_promotions' = after_is_strict_subtype(possible_promotions, t, st)
    /\ last' = Call("is_strict_subtype", "", <<SortRef(t), SortRef(st)>>, "ok", <<>>)
    /\ nops' = nops + 1
    /\ UNCHANGED <<sorts, sort_hierarchy, predicates, functions, constants,
                   language_components_frozen, aside>>

query_is_subtype(t, st) ==
    /\ possible_promotions' = after_is_subtype(possible_promotions, t, st)
    /\ last' = Call("is_subtype", "", <<SortRef(t), SortRef(st)>>, "ok", <<>>)
    /\ nops' = nops + 1
    /\ UNCHANGED <<sorts, sort_hierarchy, predicates, functions, constants,
                   language_components_frozen, aside>>

query_are_vertically_related(t1, t2) ==
    /\ possible_promotions' = after_are_vertically_related(possible_promotions, t1, t2)
    /\ last' = Call("are_vertically_related", "", <<SortRef(t1), SortRef(t2)>>, "ok", <<>>)
    /\ nops' = nops + 1
    /\ UNCHANGED <<sorts, sort_hierarchy, predicates, functions, constants,
                   language_components_frozen, aside>>

QueryOps == {"has", "get", "is_strict_subtype", "is_subtype", "are_vertically_related"}

\* sorts and predicates registered, then queried
NextQueries ==
    /\ nops < MaxOps
    /\ \/ \E name \in SortNames, ss \in {<<>>} \cup {<<r>> : r \in ParentRefs} : sort(name, ss)
       \/ \E name \in PredicateNames, args \in {<<>>} \cup {<<r>> : r \in ArgRefs} :
             predicate(name, args)
       \/ \E kind \in Kinds, name \in QueriedNames : query_has(kind, name)
       \/ \E kind \in Kinds, name \in QueriedNames : query_get(kind, name)
       \/ \E t \in SortObjects, st \in SortObjects : query_is_strict_subtype(t, st)
       \/ \E t \in SortObjects, st \in SortObjects : query_is_subtype(t, st)
       \/ \E t1 \in SortObjects, t2 \in SortObjects : query_are_vertically_related(t1, t2)

SpecQueries == Init /\ [][NextQueries]_vars

\* C13: has_* / get_*, is_subtype, is_strict_subtype and
\* are_vertically_related are pure reads: no call, successful or failing,
\* changes any part of the Language state, the set of keys of the promotion
\* table included.
C13_QueriesArePure ==
    [][(Called /\ last'.op \in QueryOps) =>
          /\ UNCHANGED <<registry, language_components_frozen, operators>>
          /\ DOMAIN possible_promotions' = DOMAIN possible_promotions]_vars

-----------------------------------------------------------------------------
(* Every call of the Language *)

UpToOne(S) == {<<>>} \cup {<<r>> : r \in S}

NextLanguage ==
    /\ nops < MaxCalls
    /\ \/ \E name \in SortNames, ss \in UpToOne(ParentRefs) : sort(name, ss)
       \/ \E lhs \in SortObjects, rhs \in SortObjects : set_parent(lhs, rhs)
       \/ \E name \in PredicateNames, args \in UpToOne(ArgRefs) : predicate(name, args)
       \/ \E name \in FunctionNames, args \in UpToOne(ArgRefs) : function(name, args)
       \/ \E name \in ConstantNames, ref \in ConstantRefs : constant(name, ref)
       \/ \E name \in VariableNames \cup {"item"}, ref \in ArgRefs : variable(name, ref)
       \/ freeze
       \/ \E key \in OperatorKeys, h \in Handlers : register_operator_handler(key, h)
       \/ \E key \in OperatorKeys, lhs \in Operands, rhs \in Operands :
             dispatch_operator(key, lhs, rhs)
       \/ \E kind \in Kinds, name \in QueriedNames : query_has(kind, name)
       \/ \E kind \in Kinds, name \in QueriedNames : query_get(kind, name)
       \/ \E t \in SortObjects, st \in SortObjects : query_is_strict_subtype(t, st)
       \/ \E t \in SortObjects, st \in SortObjects : query_is_subtype(t, st)
       \/ \E t1 \in SortObjects, t2 \in SortObjects : query_are_vertically_related(t1, t2)

SpecLanguage == Init /\ [][NextLanguage]_vars

Kept(table) == \A n \in DOMAIN table : n \in DOMAIN table' /\ table'[n] = table[n]

\* C14: across any sequence of calls the sort, predicate, function and
\* constant namespaces and the hierarchy edge set only grow: a registered name
\* denotes the same entity in every later state.
C14_AppendOnly ==
    [][/\ Kept(sorts) /\ Kept(predicates) /\ Kept(functions) /\ Kept(constants)
       /\ sort_hierarchy \subseteq sort_hierarchy']_vars

\* C14 witness: a predicate registered by the first call is still the one its
\* name denotes after a second predicate() call with that name
C14_Witness ==
    /\ nops = 2
    /\ last.op = "predicate" /\ last.name \in DOMAIN predicates
    /\ predicates[last.name].uid = 1

\* C16: variable(name, sort) succeeds whenever the sort reference resolves,
\* whatever symbol already bears the name; it raises no duplicate error and
\* leaves the namespaces and the hierarchy unchanged.
C16_VariablesNotUnique ==
    [][(Called /\ last'.op = "variable") =>
          /\ Resolvable(last'.args[1]) =>
                /\ last'.err = "ok"
                /\ last'.types = <<_retrieve_object(sorts, last'.args[1]).sort>>
          /\ last'.err \in {"ok", "LanguageError", "LanguageMismatch", "UndefinedElement"}
          /\ UNCHANGED registry]_vars

\* C16 witness: a variable was created under the name of a registered sort
C16_Witness ==
    /\ last.op = "variable" /\ last.err = "ok"
    /\ last.name \in DOMAIN sorts
    /\ last.types = <<sorts[last.name]>>

-----------------------------------------------------------------------------
(* The edges a new sort adds *)

GivenEdges(call) == {<<call.name, p.sort.name>> : p \in Range(call.args)}

SortSucceeded == Called /\ last'.op = "sort" /\ last'.err = "ok"

\* C17 as stated: a successful sort(name, parents) adds exactly one edge
\* (name, p) per given parent p, and the edge (name, Object) only when parents
\* is empty.
C17_ObjectEdgeOnlyWhenEmpty ==
    [][SortSucceeded =>
          sort_hierarchy' = sort_hierarchy \cup GivenEdges(last')
                               \cup (IF last'.args = <<>>
                                     THEN {<<last'.name, "object">>} ELSE {})]_vars

\* C17: a successful sort(name, parents) adds exactly one edge (name, p) per
\* given parent p and the edge (name, Object), whether or not parents is empty,
\* and no other edge.
C17_EdgesAdded ==
    [][SortSucceeded =>
          sort_hierarchy' = sort_hierarchy \cup GivenEdges(last')
                               \cup {<<last'.name, "object">>}]_vars

\* C17 witness: a sort registered under parents that do not include Object
\* has the edge to Object all the same
C17_Witness ==
    /\ last.op = "sort" /\ last.err = "ok"
    /\ last.args # <<>>
    /\ SortRef(sorts["object"]) \notin Range(last.args)
    /\ <<last.name, "object">> \in sort_hierarchy
    /\ \A p \in Range(last.args) : <<last.name, p.sort.name>> \in sort_hierarchy

-----------------------------------------------------------------------------
(* Iterating the properties *)

\* dict.values(): the entries in the order they were inserted
RECURSIVE values(_)
values(table) ==
    IF DOMAIN table = {} THEN <<>>
    ELSE LET n == CHOOSE n \in DOMAIN table :
                      \A o \in DOMAIN table : table[n].uid <= table[o].uid
         IN  <<table[n]>> \o values([o \in DOMAIN table \ {n} |-> table[o]])

Consuming == iteration.status = "running"

\* list(L.predicates), list(L.functions)
iterate_values(property, table) ==
    /\ ~Consuming
    /\ iteration' = [property |-> property, status |-> "done", depth |-> 0,
                     yielded |-> values(table)]
    /\ last' = Call(property, "", <<>>, "ok", <<>>)
    /\ nops' = nops + 1
    /\ UNCHANGED <<registry, language_components_frozen, operators, dispatched, probe, symbols>>

\* list(L.sorts): the attribute read makes a generator, nothing runs yet
iterate_sorts ==
    /\ ~Consuming
    /\ iteration' = [property |-> "sorts", status |-> "running", depth |-> 0,
                     yielded |-> <<>>]
    /\ last' = Call("sorts", "", <<>>, "ok", <<>>)
    /\ nops' = nops + 1
    /\ UNCHANGED <<registry, language_components_frozen, operators, dispatched, probe, symbols>>

\* next() on the innermost generator of `sorts`: its body reads self.sorts,
\* which makes one more generator, and asks that one for its first element
next_sorts ==
    /\ Consuming
    /\ iteration' = IF iteration.depth < RecursionLimit
                    THEN [iteration EXCEPT !.depth = @ + 1]
                    ELSE [iteration EXCEPT !.status = "RecursionError"]
    /\ last' = IF iteration.depth < RecursionLimit THEN last
               ELSE [last EXCEPT !.err = "RecursionError"]
    /\ UNCHANGED <<registry, language_components_frozen, nops,
                   operators, dispatched, probe, symbols>>

NextIteration ==
    \/ /\ nops < MaxOps
       /\ ~Consuming
       /\ \/ \E name \in SortNames, ss \in UpToOne(ParentRefs) : sort(name, ss)
          \/ \E name \in PredicateNames, args \in UpToOne(ArgRefs) : predicate(name, args)
          \/ \E name \in FunctionNames, args \in UpToOne(ArgRefs) : function(name, args)
    \/ /\ nops < MaxOps
       /\ \/ iterate_sorts
          \/ iterate_values("predicates", predicates)
          \/ iterate_values("functions", functions)
    \/ next_sorts

SpecIteration == Init /\ [][NextIteration]_vars

\* the last call was the iteration of property p and it has ended
Iterated(p) ==
    /\ last.op = p /\ iteration.property = p
    /\ iteration.status \notin {"idle", "running"}

EachOnce(table) ==
    /\ iteration.status = "done"
    /\ Range(iteration.yielded) = Range(table)
    /\ Len(iteration.yielded) = Cardinality(DOMAIN table)

\* C15: iterating `sorts` terminates and yields every registered sort, the
\* four builtins included, exactly once, as iterating `predicates` and
\* `functions` yields exactly the registered predicates and functions.
C15_SortsIterable ==
    /\ Iterated("sorts") => EachOnce(sorts)
    /\ Iterated("predicates") => EachOnce(predicates)
    /\ Iterated("functions") => EachOnce(functions)

-----------------------------------------------------------------------------
(* The bounds of the builtin interval sorts *)

\* Whole numbers beyond the 32 bits of the checker: a sign and the magnitude in
\* base 65536, most significant limb first, no leading zero limb
Num(neg, mag) == [neg |-> neg /\ mag # <<0>>, mag |-> mag]

RECURSIVE lex_le(_, _)
lex_le(a, b) ==
    IF a = <<>> THEN TRUE
    ELSE IF Head(a) # Head(b) THEN Head(a) < Head(b)
    ELSE lex_le(Tail(a), Tail(b))

mag_le(a, b) == Len(a) < Len(b) \/ (Len(a) = Len(b) /\ lex_le(a, b))

\* x <= y
num_le(x, y) ==
    IF x.neg # y.neg THEN x.neg
    ELSE IF x.neg THEN mag_le(y.mag, x.mag)
    ELSE mag_le(x.mag, y.mag)

\* 3.40282e+38 is the whole number 340282000000000014192072600942972764160
RealMagnitude == <<65535, 60904, 52865, 24576, 0, 0, 0, 0>>

\* 2 ** 31 - 1 and 2 ** 32 - 1
IntegerMagnitude == <<32767, 65535>>
NaturalMagnitude == <<65535, 65535>>

lower_bound(name) ==
    CASE name = "Real" -> Num(TRUE, RealMagnitude)
      [] name = "Integer" -> Num(TRUE, IntegerMagnitude)
      [] name = "Natural" -> Num(FALSE, <<0>>)

upper_bound(name) ==
    CASE name = "Real" -> Num(FALSE, RealMagnitude)
      [] name = "Integer" -> Num(FALSE, IntegerMagnitude)
      [] name = "Natural" -> Num(FALSE, NaturalMagnitude)

is_within_bounds(v, name) == num_le(lower_bound(name), v) /\ num_le(v, upper_bound(name))

\* the whole numbers tried: those of one and two limbs around the 16 and 32
\* bit borders, and those around the upper bound of Real
LimbSamples == {0, 1, 32767, 32768, 65535}

Magnitudes ==
    {<<a>> : a \in LimbSamples}
        \cup {<<a, b>> : a \in LimbSamples \ {0}, b \in LimbSamples}
        \cup {RealMagnitude, [RealMagnitude EXCEPT ![8] = 1], <<1>> \o RealMagnitude}

Numbers == {Num(neg, mag) : neg \in BOOLEAN, mag \in Magnitudes}

\* the sorts above the interval sort `name` in the promotion table
Supersorts(name) == {t.name : t \in possible_promotions[name]}

\* constant(v, sort) for a whole number v and a builtin interval sort: the
\* cast accepts v when it is within the bounds of the sort
cast(v, name) ==
    /\ probe' = [value |-> v, sort |-> name,
                 accepted |-> is_within_bounds(v, name),
                 inside |-> {n \in IntervalNames : is_within_bounds(v, n)}]
    /\ UNCHANGED <<registry, language_components_frozen, nops, last,
                   operators, dispatched, iteration, symbols>>

NextBounds == \E v \in Numbers, name \in IntervalNames : cast(v, name)

SpecBounds == Init /\ [][NextBounds]_vars

\* C19: the bounds of the builtin interval sorts agree with the subtype chain
\* Natural < Integer < Real: a number accepted as a constant of a builtin
\* interval sort is within the bounds of each interval sort above it.
C19_BoundsFollowSubtyping ==
    probe.accepted =>
        \A t \in Supersorts(probe.sort) \cap IntervalNames : t \in probe.inside

-----------------------------------------------------------------------------
(* The builtin predicate symbols (syntax/builtins.py) *)

MaxSymbols == 3      \* calls made on BuiltinPredicateSymbol

symbol_complements ==
    ("=" :> "!=") @@ ("!=" :> "=") @@ ("<" :> ">=") @@ ("<=" :> ">")
        @@ (">" :> "<=") @@ (">=" :> "<")

\* the values of the enum BuiltinPredicateSymbol
BuiltinPredicateSymbol == {"=", "!=", "<", "<=", ">", ">="}

\* the strings given to get_predicate_from_symbol
SymbolStrings == BuiltinPredicateSymbol \cup {"~"}

\* BuiltinPredicateSymbol(value): the member of that value
enum_member(value) == IF value \in BuiltinPredicateSymbol THEN value ELSE "ValueError"

\* complement() read off the mirrored comparison: < with >, <= with >=
complement_mirrored(s) ==
    enum_member((("=" :> "!=") @@ ("!=" :> "=") @@ ("<" :> ">") @@ ("<=" :> ">=")
                    @@ (">" :> "<") @@ (">=" :> "<="))[s])

complement(s) == enum_member(symbol_complements[s])

\* the members obtained so far
Members == {symbols[i].result : i \in DOMAIN symbols} \cap BuiltinPredicateSymbol

get_predicate_from_symbol(symbol) ==
    /\ Len(symbols) < MaxSymbols
    /\ symbols' = Append(symbols, [op |-> "get_predicate_from_symbol", arg |-> symbol,
                                   result |-> enum_member(symbol)])
    /\ UNCHANGED <<registry, language_components_frozen, nops, last,
                   operators, dispatched, iteration, probe>>

call_complement(s) ==
    /\ Len(symbols) < MaxSymbols
    /\ symbols' = Append(symbols, [op |-> "complement", arg |-> s,
                                   result |-> complement(s)])
    /\ UNCHANGED <<registry, language_components_frozen, nops, last,
                   operators, dispatched, iteration, probe>>

NextBuiltins ==
    \/ \E symbol \in SymbolStrings : get_predicate_from_symbol(symbol)
    \/ \E s \in Members : call_complement(s)

SpecBuiltins == Init /\ [][NextBuiltins]_vars

ComplementPairs == {{"=", "!="}, {"<", ">="}, {"<=", ">"}}

\* C20: complement is an involution without fixed points over the six builtin
\* predicate symbols, pairing = with !=, < with >= and <= with >.
C20_ComplementInvolution ==
    \A i \in DOMAIN symbols :
        symbols[i].op = "complement" =>
            /\ symbols[i].result \in BuiltinPredicateSymbol
            /\ symbols[i].result # symbols[i].arg
            /\ complement(symbols[i].result) = symbols[i].arg
            /\ {symbols[i].arg, symbols[i].result} \in ComplementPairs
            /\ i < Len(symbols) /\ symbols[i + 1].op = "complement"
                  /\ symbols[i + 1].arg = symbols[i].result
                  => symbols[i + 1].result = symbols[i].arg

\* C20 witness: < was obtained, its complement >= taken, and the complement of
\* that gave < back
C20_Witness ==
    /\ Len(symbols) = 3
    /\ symbols[1] = [op |-> "get_predicate_from_symbol", arg |-> "<", result |-> "<"]
    /\ symbols[2] = [op |-> "complement", arg |-> "<", result |-> ">="]
    /\ symbols[3] = [op |-> "complement", arg |-> ">=", result |-> "<"]

====
